---- MODULE Spec2Model ----
(***************************************************************************)
(* Model of brewery's pipe and node core (brewery/pipes/base.py and        *)
(* brewery/nodes/base.py): the buffered Queue-backed Pipe shared by one    *)
(* producer and one consumer thread, Node.put's fan-out over the node's    *)
(* output pipes, the node lifecycle in a linear graph, the wiring of nodes *)
(* with add_input / add_output, the record conversion of a pipe with or    *)
(* without a field list, and Node.configure.                               *)
(*                                                                         *)
(* Python list objects are modelled with identity: lists[p] is the heap of *)
(* the list objects created for pipe p, and buffer[p], the entries of      *)
(* queue[p] and data_buffer[p] are references (indices) into it.  Every    *)
(* read or write of a field shared by the two threads is one step.         *)
(***************************************************************************)
EXTENDS Integers, Sequences, FiniteSets, TLC

\* Largest buffer_size (rows per batch) tried.
MaxCap == 3
\* Largest queue_size tried; 0 is Queue's "unlimited".
MaxDepth == 2
\* Number of put/flush calls the free producer thread makes.
MaxOps == 5

Pipes == {1, 2}
\* The pipe the free producer and the free consumer of Spec share.
ThePipe == CHOOSE p \in Pipes : \A q \in Pipes : p <= q

VARIABLES
    buffer_size,   \* Pipe.buffer_size, per pipe
    queue_size,    \* Pipe.queue_size (maxsize of Pipe.queue), per pipe
    lists,         \* per pipe: the list objects created for it, by reference
    buffer,        \* Pipe.buffer: reference to the list being filled
    queue,         \* Pipe.queue: FIFO of list references
    finished,      \* Pipe.finished
    stop_sending,  \* Pipe.stop_sending (closed for write)
    wpc,           \* producer thread's position inside Pipe.put / Pipe.flush
    wcall,         \* which method called _send_buffer: "put" or "flush"
    wobj,          \* the obj argument of the put in progress
    rpc,           \* consumer thread's position inside Pipe.rows / Pipe.stop
    data_buffer,   \* rows(): reference to the batch being iterated
    ridx,          \* rows(): position of the for loop in data_buffer
    sent,          \* history: rows passed to Pipe.put, in call order
    yielded,       \* history: rows yielded by Pipe.rows(), in order
    dropped,       \* history: rows whose Pipe.put began with stop_sending set
    nflush,        \* history: number of flush() calls begun
    lateput,       \* history: a put was called after a flush
    late_batches,  \* history: batches enqueued after stop_sending was set
    began_closed,  \* history: the put/flush in progress began with stop_sending set
    drained,       \* history: batches stop() has taken out of the queue
    nops,          \* number of calls the free producer has made
    outputs,       \* Node.outputs, per node: list of pipes
    inputs,        \* Node.inputs, per node: list of pipes
    npc,           \* node thread's position inside Node.put
    nobj,          \* the obj argument of the Node.put in progress
    oi,            \* Node.put: position of the for loop in self.outputs
    active_outputs,\* Node.put: the local counter
    nres,          \* outcome of the node's last Node.put call
    closed0,       \* history: outputs closed for write when Node.put began
    ncalls,        \* number of Node.put calls the free or source node thread has made
    tpc,           \* runner thread of a node: "off", or its position
    ti,            \* runner thread: position in the outputs / inputs it walks
    outcome,       \* how the node's run() ended
    life,          \* history: the lifecycle methods the runner called, in order
    wres,          \* the last add_input / add_output call and how it ended
    fields,        \* Pipe.fields, per pipe
    put_record_res,\* how the last put_record() call ended
    records_res,   \* how the last records() call ended
    yrecords,      \* history: records yielded by records(), in order
    attrs,         \* the node's attribute values, by attribute name
    confcall       \* the last configure() call and how it ended

pipeVars == <<buffer_size, queue_size, lists, buffer, queue, finished, stop_sending>>
writerVars == <<wpc, wcall, wobj>>
readerVars == <<rpc, data_buffer, ridx>>
histVars == <<sent, yielded, dropped, nflush, lateput, late_batches, began_closed, drained>>
nodeVars == <<outputs, inputs, npc, nobj, oi, active_outputs, nres, closed0>>
threadVars == <<tpc, ti, outcome, life>>
recVars == <<fields, put_record_res, records_res, yrecords>>
confVars == <<attrs, confcall>>
extVars == <<wres, recVars, confVars>>
driverVars == <<nops, nodeVars, ncalls, threadVars, extVars>>
vars == <<pipeVars, writerVars, readerVars, histVars, driverVars>>

----------------------------------------------------------------------------
(* Helpers *)

Range(s) == {s[i] : i \in 1..Len(s)}

IsPrefix(s, t) == Len(s) <= Len(t) /\ \A i \in 1..Len(s) : s[i] = t[i]

\* The list object the reference r of pipe p points to.
Deref(p, r) == lists[p][r]

\* Queue.full(): a Queue with maxsize <= 0 is never full.
Queue_full(p) == queue_size[p] > 0 /\ Len(queue[p]) >= queue_size[p]

\* Queue.empty()
Queue_empty(p) == queue[p] = <<>>

\* Where _send_buffer returns to: put continues at line 106, flush at line 118.
AfterSend(p) == IF wcall[p] = "put" THEN "P106" ELSE "F118"

----------------------------------------------------------------------------
(* Pipe.__init__ *)

PipeInit(C, D) ==
    /\ buffer_size = [p \in Pipes |-> C[p]]
    /\ queue_size = [p \in Pipes |-> D[p]]
    /\ lists = [p \in Pipes |-> << <<>> >>]
    /\ buffer = [p \in Pipes |-> 1]
    /\ queue = [p \in Pipes |-> <<>>]
    /\ finished = [p \in Pipes |-> FALSE]
    /\ stop_sending = [p \in Pipes |-> FALSE]
    /\ wpc = [p \in Pipes |-> "idle"]
    /\ wcall = [p \in Pipes |-> "none"]
    /\ wobj = [p \in Pipes |-> 0]
    /\ rpc = [p \in Pipes |-> "idle"]
    /\ data_buffer = [p \in Pipes |-> 0]
    /\ ridx = [p \in Pipes |-> 0]
    /\ sent = [p \in Pipes |-> <<>>]
    /\ yielded = [p \in Pipes |-> <<>>]
    /\ dropped = [p \in Pipes |-> {}]
    /\ nflush = [p \in Pipes |-> 0]
    /\ lateput = [p \in Pipes |-> FALSE]
    /\ late_batches = [p \in Pipes |-> 0]
    /\ began_closed = [p \in Pipes |-> FALSE]
    /\ drained = [p \in Pipes |-> 0]

----------------------------------------------------------------------------
(* Pipe.put, Pipe._send_buffer, Pipe.flush: the producer side *)

\* Entering Pipe.put(obj).
Pipe_put_call(p, obj) ==
    /\ wpc[p] = "idle"
    /\ wpc' = [wpc EXCEPT ![p] = "P100"]
    /\ wcall' = [wcall EXCEPT ![p] = "put"]
    /\ wobj' = [wobj EXCEPT ![p] = obj]
    /\ sent' = [sent EXCEPT ![p] = Append(@, obj)]
    /\ lateput' = [lateput EXCEPT ![p] = @ \/ nflush[p] > 0]
    /\ began_closed' = [began_closed EXCEPT ![p] = stop_sending[p]]
    /\ UNCHANGED <<yielded, dropped, nflush, late_batches, drained>>

\* Entering Pipe.flush(): its first statement is the call of _send_buffer.
Pipe_flush_call(p) ==
    /\ wpc[p] = "idle"
    /\ wpc' = [wpc EXCEPT ![p] = "S109"]
    /\ wcall' = [wcall EXCEPT ![p] = "flush"]
    /\ nflush' = [nflush EXCEPT ![p] = @ + 1]
    /\ began_closed' = [began_closed EXCEPT ![p] = stop_sending[p]]
    /\ UNCHANGED <<wobj, sent, yielded, dropped, lateput, late_batches, drained>>

\* Mutant of Pipe_put_check: the closed-for-write flag is not looked at.
Pipe_put_check_ignoring(p) ==
    /\ wpc[p] = "P100"
    /\ wpc' = [wpc EXCEPT ![p] = "P103"]
    /\ UNCHANGED <<pipeVars, wcall, wobj, readerVars, histVars, driverVars>>

\* put, line 100-101: if self.stop_sending: return
Pipe_put_check(p) ==
    /\ wpc[p] = "P100"
    /\ IF stop_sending[p]
       THEN /\ wpc' = [wpc EXCEPT ![p] = "idle"]
            /\ dropped' = [dropped EXCEPT ![p] = @ \cup {wobj[p]}]
       ELSE /\ wpc' = [wpc EXCEPT ![p] = "P103"]
            /\ UNCHANGED dropped
    /\ UNCHANGED <<pipeVars, wcall, wobj, readerVars, sent, yielded, nflush, lateput,
                   late_batches, began_closed, drained, driverVars>>

\* Mutant of Pipe_put_append: the buffer is sent when it exceeds buffer_size.
Pipe_put_append_late(p) ==
    /\ wpc[p] = "P103"
    /\ lists' = [lists EXCEPT ![p][buffer[p]] = Append(@, wobj[p])]
    /\ wpc' = [wpc EXCEPT ![p] =
                 IF Len(Deref(p, buffer[p])) + 1 > buffer_size[p]
                 THEN "S109" ELSE "idle"]
    /\ UNCHANGED <<buffer_size, queue_size, buffer, queue, finished, stop_sending,
                   wcall, wobj, readerVars, histVars, driverVars>>

\* put, line 103-105: append to the buffer; a full buffer is sent.
Pipe_put_append(p) ==
    /\ wpc[p] = "P103"
    /\ lists' = [lists EXCEPT ![p][buffer[p]] = Append(@, wobj[p])]
    /\ wpc' = [wpc EXCEPT ![p] =
                 IF Len(Deref(p, buffer[p])) + 1 >= buffer_size[p]
                 THEN "S109" ELSE "idle"]
    /\ UNCHANGED <<buffer_size, queue_size, buffer, queue, finished, stop_sending,
                   wcall, wobj, readerVars, histVars, driverVars>>

\* Mutant of Pipe_send_check: _send_buffer does not look at the flag.
Pipe_send_check_ignoring(p) ==
    /\ wpc[p] = "S109"
    /\ wpc' = [wpc EXCEPT ![p] = "S113"]
    /\ UNCHANGED <<pipeVars, wcall, wobj, readerVars, histVars, driverVars>>

\* _send_buffer, line 109-111: if self.stop_sending: return
Pipe_send_check(p) ==
    /\ wpc[p] = "S109"
    /\ wpc' = [wpc EXCEPT ![p] = IF stop_sending[p] THEN AfterSend(p) ELSE "S113"]
    /\ UNCHANGED <<pipeVars, wcall, wobj, readerVars, histVars, driverVars>>

\* Mutant of Pipe_send_enqueue: the batch is enqueued without waiting for room.
Pipe_send_enqueue_nowait(p) ==
    /\ wpc[p] = "S113"
    /\ queue' = [queue EXCEPT ![p] = Append(@, buffer[p])]
    /\ late_batches' = [late_batches EXCEPT ![p] = IF stop_sending[p] THEN @ + 1 ELSE @]
    /\ wpc' = [wpc EXCEPT ![p] = AfterSend(p)]
    /\ UNCHANGED <<buffer_size, queue_size, lists, buffer, finished, stop_sending,
                   wcall, wobj, readerVars, sent, yielded, dropped, nflush, lateput,
                   began_closed, drained, driverVars>>

\* _send_buffer, line 113: self.queue.put(self.buffer), blocking while full.
Pipe_send_enqueue(p) ==
    /\ wpc[p] = "S113"
    /\ ~Queue_full(p)
    /\ queue' = [queue EXCEPT ![p] = Append(@, buffer[p])]
    /\ late_batches' = [late_batches EXCEPT ![p] = IF stop_sending[p] THEN @ + 1 ELSE @]
    /\ wpc' = [wpc EXCEPT ![p] = AfterSend(p)]
    /\ UNCHANGED <<buffer_size, queue_size, lists, buffer, finished, stop_sending,
                   wcall, wobj, readerVars, sent, yielded, dropped, nflush, lateput,
                   began_closed, drained, driverVars>>

\* Mutant of Pipe_put_reset: the buffer keeps the list just sent.
Pipe_put_reset_keeping(p) ==
    /\ wpc[p] = "P106"
    /\ wpc' = [wpc EXCEPT ![p] = "idle"]
    /\ UNCHANGED <<pipeVars, wcall, wobj, readerVars, histVars, driverVars>>

\* put, line 106: self.buffer = [] (a new list object)
Pipe_put_reset(p) ==
    /\ wpc[p] = "P106"
    /\ lists' = [lists EXCEPT ![p] = Append(@, <<>>)]
    /\ buffer' = [buffer EXCEPT ![p] = Len(lists[p]) + 1]
    /\ wpc' = [wpc EXCEPT ![p] = "idle"]
    /\ UNCHANGED <<buffer_size, queue_size, queue, finished, stop_sending,
                   wcall, wobj, readerVars, histVars, driverVars>>

\* flush, line 118: self.finished = True
Pipe_flush_finish(p) ==
    /\ wpc[p] = "F118"
    /\ finished' = [finished EXCEPT ![p] = TRUE]
    /\ wpc' = [wpc EXCEPT ![p] = "idle"]
    /\ UNCHANGED <<buffer_size, queue_size, lists, buffer, queue, stop_sending,
                   wcall, wobj, readerVars, histVars, driverVars>>

----------------------------------------------------------------------------
(* Pipe.rows and Pipe.stop: the consumer side *)

\* Calling rows() and advancing the generator to its first statement.
Pipe_rows_call(p) ==
    /\ rpc[p] = "idle"
    /\ rpc' = [rpc EXCEPT ![p] = "R125"]
    /\ UNCHANGED <<data_buffer, ridx>>

\* rows, line 125: data_buffer = self.queue.get(), blocking while empty.
Pipe_rows_get(p) ==
    /\ rpc[p] = "R125"
    /\ ~Queue_empty(p)
    /\ data_buffer' = [data_buffer EXCEPT ![p] = Head(queue[p])]
    /\ queue' = [queue EXCEPT ![p] = Tail(@)]
    /\ ridx' = [ridx EXCEPT ![p] = 0]
    /\ rpc' = [rpc EXCEPT ![p] = "R126"]
    /\ UNCHANGED <<buffer_size, queue_size, lists, buffer, finished, stop_sending,
                   writerVars, histVars, driverVars>>

\* rows, line 126-129: the for loop over the batch yields the next row, or,
\* at the end of the list, falls through to task_done().
Pipe_rows_iter(p) ==
    /\ rpc[p] = "R126"
    /\ IF ridx[p] < Len(Deref(p, data_buffer[p]))
       THEN /\ ridx' = [ridx EXCEPT ![p] = @ + 1]
            /\ yielded' = [yielded EXCEPT ![p] =
                             Append(@, Deref(p, data_buffer[p])[ridx[p] + 1])]
            /\ rpc' = [rpc EXCEPT ![p] = "yield"]
       ELSE /\ rpc' = [rpc EXCEPT ![p] = "R131"]
            /\ UNCHANGED <<ridx, yielded>>
    /\ UNCHANGED <<pipeVars, writerVars, data_buffer, sent, dropped, nflush, lateput,
                   late_batches, began_closed, drained, driverVars>>

\* The consumer asks the suspended generator for the next row.
Pipe_rows_next(p) ==
    /\ rpc[p] = "yield"
    /\ rpc' = [rpc EXCEPT ![p] = "R126"]
    /\ UNCHANGED <<data_buffer, ridx>>

\* rows, line 131, left operand: self.finished
Pipe_rows_finished(p) ==
    /\ rpc[p] = "R131"
    /\ rpc' = [rpc EXCEPT ![p] = IF finished[p] THEN "R131e" ELSE "R125"]
    /\ UNCHANGED <<pipeVars, writerVars, data_buffer, ridx, histVars, driverVars>>

\* rows, line 131-132, right operand: self.queue.empty(), then break
Pipe_rows_empty(p) ==
    /\ rpc[p] = "R131e"
    /\ rpc' = [rpc EXCEPT ![p] = IF Queue_empty(p) THEN "end" ELSE "R125"]
    /\ UNCHANGED <<pipeVars, writerVars, data_buffer, ridx, histVars, driverVars>>

\* Where the consumer thread may call stop(): before rows(), between two
\* rows of the sequence, or after the sequence ended.
CanStop(p) == rpc[p] \in {"idle", "yield", "end"}

\* Entering Pipe.stop().
Pipe_stop_call(p) ==
    /\ CanStop(p)
    /\ rpc' = [rpc EXCEPT ![p] = "T148"]
    /\ UNCHANGED <<data_buffer, ridx>>

\* stop, line 148: self.stop_sending = True
Pipe_stop_flag(p) ==
    /\ rpc[p] = "T148"
    /\ stop_sending' = [stop_sending EXCEPT ![p] = TRUE]
    /\ rpc' = [rpc EXCEPT ![p] = "T152"]
    /\ UNCHANGED <<buffer_size, queue_size, lists, buffer, queue, finished,
                   writerVars, data_buffer, ridx, histVars, driverVars>>

\* Mutant of Pipe_stop_drain: stop() returns without draining the queue.
Pipe_stop_drain_none(p) ==
    /\ rpc[p] = "T152"
    /\ rpc' = [rpc EXCEPT ![p] = "stopped"]
    /\ UNCHANGED <<pipeVars, writerVars, data_buffer, ridx, histVars, driverVars>>

\* Mutant of Pipe_stop_drain: the pipe is opened again once it is drained.
Pipe_stop_drain_reopening(p) ==
    /\ rpc[p] = "T152"
    /\ IF Queue_empty(p)
       THEN /\ rpc' = [rpc EXCEPT ![p] = "stopped"]
            /\ stop_sending' = [stop_sending EXCEPT ![p] = FALSE]
            /\ UNCHANGED <<queue, drained>>
       ELSE /\ queue' = [queue EXCEPT ![p] = Tail(@)]
            /\ drained' = [drained EXCEPT ![p] = @ + 1]
            /\ UNCHANGED <<rpc, stop_sending>>
    /\ UNCHANGED <<buffer_size, queue_size, lists, buffer, finished,
                   writerVars, data_buffer, ridx, sent, yielded, dropped, nflush,
                   lateput, late_batches, began_closed, driverVars>>

\* Mutant of Pipe_stop_drain: the queue is drained with the blocking get().
Pipe_stop_drain_blocking(p) ==
    /\ rpc[p] = "T152"
    /\ ~Queue_empty(p)
    /\ queue' = [queue EXCEPT ![p] = Tail(@)]
    /\ drained' = [drained EXCEPT ![p] = @ + 1]
    /\ UNCHANGED <<buffer_size, queue_size, lists, buffer, finished, stop_sending,
                   writerVars, readerVars, sent, yielded, dropped, nflush,
                   lateput, late_batches, began_closed, driverVars>>

\* stop, line 150-154: get_nowait() until Queue.Empty
Pipe_stop_drain(p) ==
    /\ rpc[p] = "T152"
    /\ IF Queue_empty(p)
       THEN /\ rpc' = [rpc EXCEPT ![p] = "stopped"]
            /\ UNCHANGED <<queue, drained>>
       ELSE /\ queue' = [queue EXCEPT ![p] = Tail(@)]
            /\ drained' = [drained EXCEPT ![p] = @ + 1]
            /\ UNCHANGED rpc
    /\ UNCHANGED <<buffer_size, queue_size, lists, buffer, finished, stop_sending,
                   writerVars, data_buffer, ridx, sent, yielded, dropped, nflush,
                   lateput, late_batches, began_closed, driverVars>>

----------------------------------------------------------------------------
(* Node.put: the fan-out write over self.outputs *)

Nodes == {1, 2, 3}

NodeInit(outs, ins) ==
    /\ outputs = [n \in Nodes |-> outs[n]]
    /\ inputs = [n \in Nodes |-> ins[n]]
    /\ npc = [n \in Nodes |-> "idle"]
    /\ nobj = [n \in Nodes |-> 0]
    /\ oi = [n \in Nodes |-> 0]
    /\ active_outputs = [n \in Nodes |-> 0]
    /\ nres = [n \in Nodes |-> "none"]
    /\ closed0 = [n \in Nodes |-> {}]

\* Pipe.fields = None: the field list of a pipe that was given none.
NoFields == <<"None">>

\* No configure() call made yet.
NoCall == [config |-> <<>>, protected |-> FALSE, result |-> "none",
           before |-> <<>>, repeat |-> FALSE]

\* Nothing wired, converted or configured: the parts of the state that the
\* pipe and Node.put specifications leave alone.
ExtInit ==
    /\ wres = [node |-> 0, method |-> "none", pipe |-> 0, result |-> "none"]
    /\ fields = [p \in Pipes |-> NoFields]
    /\ put_record_res = "none"
    /\ records_res = "none"
    /\ yrecords = <<>>
    /\ attrs = <<>>
    /\ confcall = NoCall

\* No runner thread: the calls come from a thread of the specification.
NoThreads ==
    /\ tpc = [n \in Nodes |-> "off"]
    /\ ti = [n \in Nodes |-> 0]
    /\ outcome = [n \in Nodes |-> "none"]
    /\ life = [n \in Nodes |-> <<>>]

\* Entering Node.put(obj): active_outputs = 0, the for loop starts.
Node_put_call(n, obj) ==
    /\ npc[n] = "idle"
    /\ npc' = [npc EXCEPT ![n] = "N216"]
    /\ nobj' = [nobj EXCEPT ![n] = obj]
    /\ oi' = [oi EXCEPT ![n] = 1]
    /\ active_outputs' = [active_outputs EXCEPT ![n] = 0]
    /\ nres' = [nres EXCEPT ![n] = "none"]
    /\ closed0' = [closed0 EXCEPT ![n] = {p \in Range(outputs[n]) : stop_sending[p]}]
    /\ UNCHANGED <<outputs, inputs>>

\* Mutant of Node_put_loop: every output is written, closed or not.
Node_put_loop_unchecked(n) ==
    /\ npc[n] = "N216"
    /\ IF oi[n] > Len(outputs[n])
       THEN /\ npc' = [npc EXCEPT ![n] = "N221"]
            /\ UNCHANGED <<oi, writerVars, histVars>>
       ELSE /\ Pipe_put_call(outputs[n][oi[n]], nobj[n])
            /\ npc' = [npc EXCEPT ![n] = "N218"]
            /\ UNCHANGED oi
    /\ UNCHANGED <<pipeVars, readerVars, nops, ncalls, threadVars, extVars,
                   outputs, inputs, nobj, active_outputs, nres, closed0>>

\* Node.put, line 216-218: the next output of the for loop; an output that
\* is not closed for write gets output.put(obj), a closed one is skipped.
\* After the last output the loop ends.
Node_put_loop(n) ==
    /\ npc[n] = "N216"
    /\ IF oi[n] > Len(outputs[n])
       THEN /\ npc' = [npc EXCEPT ![n] = "N221"]
            /\ UNCHANGED <<oi, writerVars, histVars>>
       ELSE IF ~stop_sending[outputs[n][oi[n]]]
            THEN /\ Pipe_put_call(outputs[n][oi[n]], nobj[n])
                 /\ npc' = [npc EXCEPT ![n] = "N218"]
                 /\ UNCHANGED oi
            ELSE /\ oi' = [oi EXCEPT ![n] = @ + 1]
                 /\ UNCHANGED <<npc, writerVars, histVars>>
    /\ UNCHANGED <<pipeVars, readerVars, nops, ncalls, threadVars, extVars,
                   outputs, inputs, nobj, active_outputs, nres, closed0>>

\* Mutant of Node_put_count: the loop goes on without waiting for
\* output.put(obj) to return.
Node_put_count_eager(n) ==
    /\ npc[n] = "N218"
    /\ active_outputs' = [active_outputs EXCEPT ![n] = @ + 1]
    /\ oi' = [oi EXCEPT ![n] = @ + 1]
    /\ npc' = [npc EXCEPT ![n] = "N216"]
    /\ UNCHANGED <<pipeVars, writerVars, readerVars, histVars, nops, ncalls,
                   threadVars, extVars, outputs, inputs, nobj, nres, closed0>>

\* Node.put, line 218-219: output.put(obj) has returned; active_outputs += 1
Node_put_count(n) ==
    /\ npc[n] = "N218"
    /\ wpc[outputs[n][oi[n]]] = "idle"
    /\ active_outputs' = [active_outputs EXCEPT ![n] = @ + 1]
    /\ oi' = [oi EXCEPT ![n] = @ + 1]
    /\ npc' = [npc EXCEPT ![n] = "N216"]
    /\ UNCHANGED <<pipeVars, writerVars, readerVars, histVars, nops, ncalls,
                   threadVars, extVars, outputs, inputs, nobj, nres, closed0>>

\* Node.put, line 221-222: if not active_outputs: raise NodeFinished
Node_put_raise(n) ==
    /\ npc[n] = "N221"
    /\ nres' = [nres EXCEPT ![n] =
                  IF active_outputs[n] = 0 THEN "NodeFinished" ELSE "ok"]
    /\ npc' = [npc EXCEPT ![n] = "idle"]
    /\ UNCHANGED <<pipeVars, writerVars, readerVars, histVars, nops, ncalls,
                   threadVars, extVars, outputs, inputs, nobj, oi, active_outputs, closed0>>

----------------------------------------------------------------------------
(* The steps inside the pipe and node methods, whoever called them *)

WriterStep(p) ==
    \/ Pipe_put_check(p)
    \/ Pipe_put_append(p)
    \/ Pipe_send_check(p)
    \/ Pipe_send_enqueue(p)
    \/ Pipe_put_reset(p)
    \/ Pipe_flush_finish(p)

ReaderStep(p) ==
    \/ Pipe_rows_get(p)
    \/ Pipe_rows_iter(p)
    \/ Pipe_rows_finished(p)
    \/ Pipe_rows_empty(p)

StopStep(p) ==
    \/ Pipe_stop_flag(p)
    \/ Pipe_stop_drain(p)

NodeStep(n) ==
    \/ Node_put_loop(n)
    \/ Node_put_count(n)
    \/ Node_put_raise(n)

----------------------------------------------------------------------------
(* A consumer thread that is not a node: it iterates rows() and may call   *)
(* stop() wherever CanStop allows.                                         *)

ConsumerRows(p) ==
    /\ Pipe_rows_call(p)
    /\ UNCHANGED <<pipeVars, writerVars, histVars, driverVars>>

ConsumerNext(p) ==
    /\ Pipe_rows_next(p)
    /\ UNCHANGED <<pipeVars, writerVars, histVars, driverVars>>

ConsumerStop(p) ==
    /\ Pipe_stop_call(p)
    /\ UNCHANGED <<pipeVars, writerVars, histVars, driverVars>>

----------------------------------------------------------------------------
(* Spec: one pipe, a producer thread calling put and flush on it and a     *)
(* consumer thread iterating rows() and possibly calling stop().           *)

NoOutputs == [n \in Nodes |-> <<>>]

Init ==
    /\ \E c \in 1..MaxCap, d \in 0..MaxDepth :
          PipeInit([p \in Pipes |-> IF p = ThePipe THEN c ELSE 1],
                   [p \in Pipes |-> IF p = ThePipe THEN d ELSE 1])
    /\ NodeInit(NoOutputs, NoOutputs)
    /\ NoThreads
    /\ ExtInit
    /\ nops = 0
    /\ ncalls = 0

\* The k-th put passes row k, so that rows are told apart.
ProducerPut ==
    /\ nops < MaxOps
    /\ Pipe_put_call(ThePipe, Len(sent[ThePipe]) + 1)
    /\ nops' = nops + 1
    /\ UNCHANGED <<pipeVars, readerVars, nodeVars, ncalls, threadVars, extVars>>

ProducerFlush ==
    /\ nops < MaxOps
    /\ Pipe_flush_call(ThePipe)
    /\ nops' = nops + 1
    /\ UNCHANGED <<pipeVars, readerVars, nodeVars, ncalls, threadVars, extVars>>

Next ==
    \/ ProducerPut
    \/ ProducerFlush
    \/ WriterStep(ThePipe)
    \/ ConsumerRows(ThePipe)
    \/ ConsumerNext(ThePipe)
    \/ ConsumerStop(ThePipe)
    \/ ReaderStep(ThePipe)
    \/ StopStep(ThePipe)

Spec == Init /\ [][Next]_vars

\* The scheduler runs every thread that can take a step: a thread inside a
\* pipe method is not starved.  The calls themselves are the threads' choice.
FairSpec ==
    /\ Spec
    /\ WF_vars(WriterStep(ThePipe))
    /\ WF_vars(ReaderStep(ThePipe))
    /\ WF_vars(StopStep(ThePipe))

----------------------------------------------------------------------------
(* NodeSpec: a node thread calling Node.put on a node with N outputs, each *)
(* output read, or stopped, by a consumer thread of its own.               *)

\* Number of Node.put calls the free node thread makes.
MaxNodePuts == 2

TheNode == CHOOSE n \in Nodes : \A m \in Nodes : n <= m

\* The outputs lists tried: N = 0, 1, ... pipes, in list order.
OutputLists == {[i \in 1..k |-> i] : k \in 0..Cardinality(Pipes)}

NodeSpecInit ==
    /\ \E c \in 1..MaxCap, d \in 0..MaxDepth :
          PipeInit([p \in Pipes |-> c], [p \in Pipes |-> d])
    /\ \E outs \in OutputLists :
          NodeInit([n \in Nodes |-> IF n = TheNode THEN outs ELSE <<>>], NoOutputs)
    /\ NoThreads
    /\ ExtInit
    /\ nops = 0
    /\ ncalls = 0

\* The k-th call passes row k.
NodePut ==
    /\ ncalls < MaxNodePuts
    /\ Node_put_call(TheNode, ncalls + 1)
    /\ ncalls' = ncalls + 1
    /\ UNCHANGED <<pipeVars, writerVars, readerVars, histVars, nops, threadVars, extVars>>

NodeSpecNext ==
    \/ NodePut
    \/ NodeStep(TheNode)
    \/ \E p \in Range(outputs[TheNode]) : WriterStep(p)
    \/ \E p \in Range(outputs[TheNode]) : ConsumerRows(p)
    \/ \E p \in Range(outputs[TheNode]) : ConsumerNext(p)
    \/ \E p \in Range(outputs[TheNode]) : ConsumerStop(p)
    \/ \E p \in Range(outputs[TheNode]) : ReaderStep(p)
    \/ \E p \in Range(outputs[TheNode]) : StopStep(p)

NodeSpec == NodeSpecInit /\ [][NodeSpecNext]_vars

----------------------------------------------------------------------------
(* GraphSpec: the linear graph source -> transform -> target, one thread   *)
(* per node.  The thread runs the node's run() and then, as the stream     *)
(* runner does, flushes the node's outputs after a normal return and stops *)
(* the node's inputs.  run() of the source puts rows, run() of the         *)
(* transform puts every row of its input, run() of the target reads its    *)
(* input and may return before the input ended.                            *)

\* Number of rows the source has.
MaxSourceRows == 2

Source == 1
Transform == 2
Target == 3

IsSource(n) == inputs[n] = <<>>
IsTarget(n) == outputs[n] = <<>>
\* Node.input: the single input pipe.
Input(n) == inputs[n][1]

GraphInit ==
    /\ \E c \in 1..MaxCap, d \in 0..MaxDepth :
          PipeInit([p \in Pipes |-> c], [p \in Pipes |-> d])
    /\ NodeInit([n \in Nodes |-> IF n = Source THEN <<1>>
                                 ELSE IF n = Transform THEN <<2>> ELSE <<>>],
                [n \in Nodes |-> IF n = Transform THEN <<1>>
                                 ELSE IF n = Target THEN <<2>> ELSE <<>>])
    /\ tpc = [n \in Nodes |-> "init"]
    /\ ti = [n \in Nodes |-> 0]
    /\ outcome = [n \in Nodes |-> "none"]
    /\ life = [n \in Nodes |-> <<>>]
    /\ ExtInit
    /\ nops = 0
    /\ ncalls = 0

\* Runner: node.initialize() (nodes/base.py line 40-51: no effect of its own).
Runner_initialize(n) ==
    /\ tpc[n] = "init"
    /\ tpc' = [tpc EXCEPT ![n] = "start"]
    /\ life' = [life EXCEPT ![n] = Append(@, "initialize")]
    /\ UNCHANGED <<pipeVars, writerVars, readerVars, histVars, nops, nodeVars,
                   ncalls, ti, outcome, extVars>>

\* Runner: node.run() is called in the node's thread.
Runner_run(n) ==
    /\ tpc[n] = "start"
    /\ tpc' = [tpc EXCEPT ![n] = "run"]
    /\ life' = [life EXCEPT ![n] = Append(@, "run")]
    /\ UNCHANGED <<pipeVars, writerVars, readerVars, histVars, nops, nodeVars,
                   ncalls, ti, outcome, extVars>>

\* run() of the source: self.put(row) for its next row.
Source_put(n) ==
    /\ tpc[n] = "run" /\ IsSource(n)
    /\ npc[n] = "idle" /\ nres[n] # "NodeFinished"
    /\ ncalls < MaxSourceRows
    /\ Node_put_call(n, ncalls + 1)
    /\ ncalls' = ncalls + 1
    /\ UNCHANGED <<pipeVars, writerVars, readerVars, histVars, nops, threadVars, extVars>>

\* run() of a reading node: for row in self.input.rows()
Run_rows(n) ==
    /\ tpc[n] = "run" /\ ~IsSource(n)
    /\ Pipe_rows_call(Input(n))
    /\ UNCHANGED <<pipeVars, writerVars, histVars, driverVars>>

\* run() of the transform, loop body: self.put(row)
Transform_put(n) ==
    /\ tpc[n] = "run" /\ ~IsSource(n) /\ ~IsTarget(n)
    /\ rpc[Input(n)] = "yield"
    /\ npc[n] = "idle" /\ nres[n] = "none"
    /\ Node_put_call(n, Deref(Input(n), data_buffer[Input(n)])[ridx[Input(n)]])
    /\ UNCHANGED <<pipeVars, writerVars, readerVars, histVars, nops, ncalls, threadVars, extVars>>

\* run() of a reading node: the loop body is done, the next row is asked for.
Run_next(n) ==
    /\ tpc[n] = "run" /\ ~IsSource(n)
    /\ IsTarget(n) \/ (npc[n] = "idle" /\ nres[n] = "ok")
    /\ Pipe_rows_next(Input(n))
    /\ nres' = [nres EXCEPT ![n] = "none"]
    /\ UNCHANGED <<pipeVars, writerVars, histVars, nops, ncalls, threadVars, extVars,
                   outputs, inputs, npc, nobj, oi, active_outputs, closed0>>

\* run() returns normally: the source at any time between two puts, a
\* reading node when its input's row sequence ended.
Run_return(n) ==
    /\ tpc[n] = "run"
    /\ npc[n] = "idle" /\ nres[n] # "NodeFinished"
    /\ IF IsSource(n) THEN TRUE ELSE rpc[Input(n)] = "end"
    /\ tpc' = [tpc EXCEPT ![n] = "flush"]
    /\ ti' = [ti EXCEPT ![n] = 1]
    /\ outcome' = [outcome EXCEPT ![n] = "normal"]
    /\ UNCHANGED <<pipeVars, writerVars, readerVars, histVars, nops, nodeVars, ncalls, life, extVars>>

\* run() of the target returns before its input ended.
Target_early(n) ==
    /\ tpc[n] = "run" /\ IsTarget(n)
    /\ rpc[Input(n)] \in {"idle", "yield"}
    /\ tpc' = [tpc EXCEPT ![n] = "flush"]
    /\ ti' = [ti EXCEPT ![n] = 1]
    /\ outcome' = [outcome EXCEPT ![n] = "early"]
    /\ UNCHANGED <<pipeVars, writerVars, readerVars, histVars, nops, nodeVars, ncalls, life, extVars>>

\* Mutant of Run_finished: NodeFinished is handled like any other error.
Run_finished_unhandled(n) ==
    /\ tpc[n] = "run"
    /\ npc[n] = "idle" /\ nres[n] = "NodeFinished"
    /\ tpc' = [tpc EXCEPT ![n] = "finalize"]
    /\ ti' = [ti EXCEPT ![n] = 1]
    /\ outcome' = [outcome EXCEPT ![n] = "NodeFinished"]
    /\ UNCHANGED <<pipeVars, writerVars, readerVars, histVars, nops, nodeVars, ncalls, life, extVars>>

\* NodeFinished, raised by self.put, leaves run(); the runner catches it.
Run_finished(n) ==
    /\ tpc[n] = "run"
    /\ npc[n] = "idle" /\ nres[n] = "NodeFinished"
    /\ tpc' = [tpc EXCEPT ![n] = "stop"]
    /\ ti' = [ti EXCEPT ![n] = 1]
    /\ outcome' = [outcome EXCEPT ![n] = "NodeFinished"]
    /\ UNCHANGED <<pipeVars, writerVars, readerVars, histVars, nops, nodeVars, ncalls, life, extVars>>

\* run() fails with an error other than NodeFinished, raised by the node's
\* own code between two calls into its pipes (Node.run of nodes/base.py
\* line 57-61 raises NotImplementedError at once).  The runner goes straight
\* to finalize().
Run_error(n) ==
    /\ tpc[n] = "run"
    /\ npc[n] = "idle"
    /\ IF IsSource(n) THEN TRUE ELSE rpc[Input(n)] \in {"idle", "yield", "end"}
    /\ tpc' = [tpc EXCEPT ![n] = "finalize"]
    /\ outcome' = [outcome EXCEPT ![n] = "error"]
    /\ UNCHANGED <<pipeVars, writerVars, readerVars, histVars, nops, nodeVars,
                   ncalls, ti, life, extVars>>

\* Runner, after a normal return: flush() on the next output, or on to the
\* inputs when all outputs are flushed.
Runner_flush(n) ==
    /\ tpc[n] = "flush"
    /\ IF ti[n] > Len(outputs[n])
       THEN /\ tpc' = [tpc EXCEPT ![n] = "stop"]
            /\ ti' = [ti EXCEPT ![n] = 1]
            /\ UNCHANGED <<writerVars, histVars>>
       ELSE /\ Pipe_flush_call(outputs[n][ti[n]])
            /\ tpc' = [tpc EXCEPT ![n] = "flushing"]
            /\ UNCHANGED ti
    /\ UNCHANGED <<pipeVars, readerVars, nops, nodeVars, ncalls, outcome, life, extVars>>

\* Runner: flush() has returned.
Runner_flushed(n) ==
    /\ tpc[n] = "flushing"
    /\ wpc[outputs[n][ti[n]]] = "idle"
    /\ tpc' = [tpc EXCEPT ![n] = "flush"]
    /\ ti' = [ti EXCEPT ![n] = @ + 1]
    /\ UNCHANGED <<pipeVars, writerVars, readerVars, histVars, nops, nodeVars,
                   ncalls, outcome, life, extVars>>

\* Runner, after run() ended: stop() on the next input, or on to finalize()
\* when all inputs are stopped.
Runner_stop(n) ==
    /\ tpc[n] = "stop"
    /\ IF ti[n] > Len(inputs[n])
       THEN /\ tpc' = [tpc EXCEPT ![n] = "finalize"]
            /\ UNCHANGED <<ti, readerVars>>
       ELSE /\ Pipe_stop_call(inputs[n][ti[n]])
            /\ tpc' = [tpc EXCEPT ![n] = "stopping"]
            /\ UNCHANGED ti
    /\ UNCHANGED <<pipeVars, writerVars, histVars, nops, nodeVars, ncalls, outcome, life, extVars>>

\* Runner: stop() has returned.
Runner_stopped(n) ==
    /\ tpc[n] = "stopping"
    /\ rpc[inputs[n][ti[n]]] = "stopped"
    /\ tpc' = [tpc EXCEPT ![n] = "stop"]
    /\ ti' = [ti EXCEPT ![n] = @ + 1]
    /\ UNCHANGED <<pipeVars, writerVars, readerVars, histVars, nops, nodeVars,
                   ncalls, outcome, life, extVars>>

\* Runner: node.finalize() (nodes/base.py line 53-55: no effect of its own);
\* the node's thread ends.
Runner_finalize(n) ==
    /\ tpc[n] = "finalize"
    /\ tpc' = [tpc EXCEPT ![n] = "done"]
    /\ life' = [life EXCEPT ![n] = Append(@, "finalize")]
    /\ UNCHANGED <<pipeVars, writerVars, readerVars, histVars, nops, nodeVars,
                   ncalls, ti, outcome, extVars>>

GraphNext ==
    \/ \E n \in Nodes : Runner_initialize(n)
    \/ \E n \in Nodes : Runner_run(n)
    \/ \E n \in Nodes : Run_error(n)
    \/ \E n \in Nodes : Runner_finalize(n)
    \/ \E n \in Nodes : Source_put(n)
    \/ \E n \in Nodes : Run_rows(n)
    \/ \E n \in Nodes : Transform_put(n)
    \/ \E n \in Nodes : Run_next(n)
    \/ \E n \in Nodes : Run_return(n)
    \/ \E n \in Nodes : Target_early(n)
    \/ \E n \in Nodes : Run_finished(n)
    \/ \E n \in Nodes : Runner_flush(n)
    \/ \E n \in Nodes : Runner_flushed(n)
    \/ \E n \in Nodes : Runner_stop(n)
    \/ \E n \in Nodes : Runner_stopped(n)
    \/ \E n \in Nodes : NodeStep(n)
    \/ \E p \in Pipes : WriterStep(p)
    \/ \E p \in Pipes : ReaderStep(p)
    \/ \E p \in Pipes : StopStep(p)

GraphSpec == GraphInit /\ [][GraphNext]_vars

----------------------------------------------------------------------------
(* Properties of one pipe (Spec, FairSpec) *)

\* stop() has been called on pipe p.
StopCalled(p) == rpc[p] \in {"T148", "T152", "stopped"}

\* The producer is suspended in queue.put: the queue is at its depth bound.
Suspended(p) == wpc[p] = "S113" /\ Queue_full(p)

\* The producer called put r1..rn and then flush once, or is on the way there.
PutsThenOneFlush(p) == nflush[p] <= 1 /\ ~lateput[p]

RECURSIVE RowsIn(_, _)
\* Number of rows in the batches a sequence of references points to.
RowsIn(p, refs) ==
    IF refs = <<>> THEN 0 ELSE Len(Deref(p, Head(refs))) + RowsIn(p, Tail(refs))

\* Rows the producer holds or has queued and the consumer has not removed.
Lead(p) == Len(Deref(p, buffer[p])) + RowsIn(p, queue[p])

\* C1: with puts r1..rn followed by one flush and no stop, rows() yields
\* r1..rn in order: at every moment the rows yielded are a prefix of the
\* rows put, and once the flush has returned and the consumer has drained
\* the queue (or left the loop) they are all of them.
C1_RowsInOrder ==
    \A p \in {ThePipe} :
        (PutsThenOneFlush(p) /\ ~StopCalled(p)) =>
            /\ IsPrefix(yielded[p], sent[p])
            /\ rpc[p] = "end" => yielded[p] = sent[p]
            /\ ( /\ nflush[p] = 1 /\ wpc[p] = "idle" /\ Queue_empty(p)
                 /\ rpc[p] \in {"R125", "R131", "R131e"} )
               => yielded[p] = sent[p]

\* C1 witness: four rows through a pipe of capacity 3 and queue depth 1 (a
\* full batch and a flushed partial one), all yielded, the sequence ended.
C1_Witness ==
    /\ rpc[ThePipe] = "end"
    /\ buffer_size[ThePipe] = 3
    /\ queue_size[ThePipe] = 1
    /\ nflush[ThePipe] = 1
    /\ sent[ThePipe] = <<1, 2, 3, 4>>
    /\ yielded[ThePipe] = <<1, 2, 3, 4>>

\* C2: after the one flush of a pipe that is never stopped has returned, the
\* consumer is not suspended in queue.get() on the empty queue of the
\* finished pipe (where nothing will wake it).
C2_ConsumerLeavesLoop ==
    \A p \in {ThePipe} :
        ( /\ PutsThenOneFlush(p) /\ ~StopCalled(p)
          /\ finished[p] /\ wpc[p] = "idle" /\ Queue_empty(p) )
        => rpc[p] # "R125"

\* C3: a producer suspended in queue.put is released once the consumer has
\* called stop(), and after stop() has returned the producer is never
\* suspended on the closed pipe.
C3_ProducerReleased ==
    /\ \A p \in {ThePipe} : (Suspended(p) /\ StopCalled(p)) ~> (wpc[p] # "S113")
    /\ [](\A p \in {ThePipe} :
             (rpc[p] = "stopped" /\ stop_sending[p]) => ~Suspended(p))

\* C3 witness: the consumer has called stop() while the producer is
\* suspended handing a batch to the full queue.
C3_Witness ==
    /\ Suspended(ThePipe)
    /\ rpc[ThePipe] = "T148"
    /\ queue_size[ThePipe] >= 1

\* C4: a put that finds closed-for-write set returns at once and changes
\* neither buffer, queue nor finished; its row is in no batch of the pipe
\* and is never yielded.
C4_PutAfterStopNoOp ==
    /\ [][\A p \in Pipes :
            (wpc[p] = "P100" /\ stop_sending[p] /\ wpc'[p] # wpc[p]) =>
                /\ wpc'[p] = "idle"
                /\ lists'[p] = lists[p]
                /\ buffer'[p] = buffer[p]
                /\ queue'[p] = queue[p]
                /\ finished'[p] = finished[p]]_vars
    /\ [](\A p \in Pipes : \A r \in dropped[p] :
            /\ r \notin Range(yielded[p])
            /\ \A i \in 1..Len(lists[p]) : r \notin Range(lists[p][i]))

\* C4 witness: a put called after stop() has returned without a trace.
C4_Witness ==
    /\ dropped[ThePipe] # {}
    /\ wpc[ThePipe] = "idle"
    /\ stop_sending[ThePipe]

\* C5: once stop() has returned and no producer call is in flight, the
\* queue holds no batch.
C5_NoPendingAfterStop ==
    \A p \in {ThePipe} :
        (rpc[p] = "stopped" /\ wpc[p] = "idle") => Queue_empty(p)

\* C8: a bounded queue never holds more than queue_size batches, and while
\* the producer is suspended on the full queue it takes no step: the queue
\* changes only by the consumer removing its head, and no batch changes.
C8_Backpressure ==
    /\ [](\A p \in Pipes :
             queue_size[p] >= 1 => Len(queue[p]) <= queue_size[p])
    /\ [][\A p \in Pipes :
            Suspended(p) =>
                /\ wpc'[p] = "S113"
                /\ buffer'[p] = buffer[p]
                /\ lists'[p] = lists[p]
                /\ queue'[p] \in {queue[p], Tail(queue[p])}]_vars

\* C8 witness: the producer suspended on a queue holding queue_size batches.
C8_Witness ==
    /\ Suspended(ThePipe)
    /\ queue_size[ThePipe] = 2
    /\ Len(queue[ThePipe]) = 2

\* C9 as stated: when the producer suspends, its lead is at most
\* queue_size x buffer_size rows.
C9_LeadAtMostDxC ==
    \A p \in Pipes :
        Suspended(p) => Lead(p) <= queue_size[p] * buffer_size[p]

\* C9 amended: when the producer suspends, its lead is at most
\* (queue_size + 1) x buffer_size rows: the queued batches and the full
\* batch it is handing over.
C9_LeadAtMostD1xC ==
    \A p \in Pipes :
        Suspended(p) => Lead(p) <= (queue_size[p] + 1) * buffer_size[p]

\* C9 witness: the producer suspended with exactly that lead.
C9_Witness ==
    /\ Suspended(ThePipe)
    /\ buffer_size[ThePipe] = 2
    /\ Lead(ThePipe) = (queue_size[ThePipe] + 1) * buffer_size[ThePipe]

----------------------------------------------------------------------------
(* Properties of Node.put (NodeSpec) *)

\* Row r has been appended to a buffer of pipe p (put, line 103).
Written(p, r) == \E i \in 1..Len(lists[p]) : r \in Range(lists[p][i])

\* The outputs of node n that are closed for write.
ClosedOutputs(n) == {p \in Range(outputs[n]) : stop_sending[p]}

\* Node n's Node.put call has returned or raised.
Returned(n) == npc[n] = "idle" /\ nres[n] # "none"

\* C6: when no output was stopped during the call, Node.put(row) has
\* appended the row to every output that was open, has not passed it to any
\* closed output, and has raised NodeFinished iff all outputs were closed.
C6_FanOut ==
    \A n \in {TheNode} :
        (Returned(n) /\ ClosedOutputs(n) = closed0[n]) =>
            /\ \A p \in Range(outputs[n]) \ closed0[n] : Written(p, nobj[n])
            /\ \A p \in closed0[n] :
                  ~Written(p, nobj[n]) /\ nobj[n] \notin Range(sent[p])
            /\ nres[n] = "NodeFinished" <=> closed0[n] = Range(outputs[n])

\* C6 witness: two outputs, the first stopped before the call; the row is
\* in the second output only and the call returned normally.
C6_Witness ==
    /\ Returned(TheNode)
    /\ Len(outputs[TheNode]) = 2
    /\ closed0[TheNode] = {outputs[TheNode][1]}
    /\ ClosedOutputs(TheNode) = closed0[TheNode]
    /\ nres[TheNode] = "ok"
    /\ Written(outputs[TheNode][2], nobj[TheNode])
    /\ ~Written(outputs[TheNode][1], nobj[TheNode])

\* C7: a Node.put call that wrote its row to no output raised NodeFinished.
C7_ZeroWritesRaise ==
    \A n \in {TheNode} :
        (Returned(n) /\ \A p \in Range(outputs[n]) : ~Written(p, nobj[n]))
        => nres[n] = "NodeFinished"

----------------------------------------------------------------------------
(* Properties of the linear graph (GraphSpec) *)

\* Every node's thread has ended.
AllThreadsEnded == \A n \in Nodes : tpc[n] = "done"

\* Some thread can take a step.
SomeThreadCanStep == ENABLED GraphNext

\* C10: once the target has ended early, and no node's run() failed with
\* an error, the graph is never in a state where a thread has not ended and
\* no thread can take a step (a thread suspended in put or rows with nobody
\* left to wake it).
C10_ShutdownCascade ==
    (outcome[Target] = "early" /\ \A n \in Nodes : outcome[n] # "error")
    => (AllThreadsEnded \/ SomeThreadCanStep)

----------------------------------------------------------------------------
(* Properties of the node lifecycle (GraphSpec) *)

Lifecycle == <<"initialize", "run", "finalize">>

\* run() of node n ended without an error other than NodeFinished.
EndedCleanly(n) == outcome[n] \in {"normal", "early", "NodeFinished"}

\* C11: for every node the runner calls initialize, run and finalize in
\* this order and each at most once; run has ended, in whichever way, before
\* finalize is called; a node whose thread ended has had each of the three
\* called exactly once; and when run returned normally or with NodeFinished,
\* stop() has returned on every input pipe of the node before finalize starts.
C11_LifecycleOrder ==
    \A n \in Nodes :
        /\ IsPrefix(life[n], Lifecycle)
        /\ outcome[n] # "none" => Len(life[n]) >= 2
        /\ Len(life[n]) = 3 => outcome[n] # "none"
        /\ tpc[n] = "done" => life[n] = Lifecycle
        /\ tpc[n] \in {"finalize", "done"} /\ EndedCleanly(n) =>
              \A p \in Range(inputs[n]) : rpc[p] = "stopped"

\* One node ended with NodeFinished, another with an error, a third by
\* returning: all three were finalized, the inputs of the first are stopped.
C11_Witness ==
    /\ \A n \in Nodes : tpc[n] = "done" /\ life[n] = Lifecycle
    /\ outcome[Transform] = "NodeFinished"
    /\ outcome[Source] = "error"
    /\ outcome[Target] = "early"
    /\ rpc[Input(Transform)] = "stopped"

----------------------------------------------------------------------------
(* WireSpec: a SourceNode, a Node and a TargetNode being connected to the  *)
(* pipes by add_input and add_output calls, any pipe to any node, repeated *)
(* connections included.                                                   *)

\* Number of add_input / add_output calls made.
MaxWire == 4

\* The class of node n.
Kind(n) == IF n = Source THEN "SourceNode"
           ELSE IF n = Target THEN "TargetNode" ELSE "Node"

WireCall(n, method, p, result) ==
    [node |-> n, method |-> method, pipe |-> p, result |-> result]

\* Mutant of Node_add_input: the pipe is appended without the membership test.
Node_add_input_unguarded(n, p) ==
    /\ inputs' = [inputs EXCEPT ![n] = Append(@, p)]
    /\ wres' = WireCall(n, "add_input", p, "ok")
    /\ UNCHANGED outputs

\* Node.add_input, line 74-78
Node_add_input(n, p) ==
    /\ IF p \notin Range(inputs[n])
       THEN /\ inputs' = [inputs EXCEPT ![n] = Append(@, p)]
            /\ wres' = WireCall(n, "add_input", p, "ok")
       ELSE /\ wres' = WireCall(n, "add_input", p, "Exception")
            /\ UNCHANGED inputs
    /\ UNCHANGED outputs

\* Node.add_output, line 80-84
Node_add_output(n, p) ==
    /\ IF p \notin Range(outputs[n])
       THEN /\ outputs' = [outputs EXCEPT ![n] = Append(@, p)]
            /\ wres' = WireCall(n, "add_output", p, "ok")
       ELSE /\ wres' = WireCall(n, "add_output", p, "Exception")
            /\ UNCHANGED outputs
    /\ UNCHANGED inputs

\* Mutant of SourceNode_add_input: the method is not overridden.
SourceNode_add_input_inherited(n, p) == Node_add_input(n, p)

\* SourceNode.add_input, line 251-252: always raises
SourceNode_add_input(n, p) ==
    /\ wres' = WireCall(n, "add_input", p, "Exception")
    /\ UNCHANGED <<inputs, outputs>>

\* TargetNode.add_output, line 268-269: always raises
TargetNode_add_output(n, p) ==
    /\ wres' = WireCall(n, "add_output", p, "RuntimeError")
    /\ UNCHANGED <<inputs, outputs>>

\* node.add_input(pipe), by the class of the node
add_input(n, p) ==
    IF Kind(n) = "SourceNode" THEN SourceNode_add_input(n, p)
    ELSE Node_add_input(n, p)

\* node.add_output(pipe), by the class of the node
add_output(n, p) ==
    IF Kind(n) = "TargetNode" THEN TargetNode_add_output(n, p)
    ELSE Node_add_output(n, p)

WireInit ==
    /\ PipeInit([p \in Pipes |-> 1], [p \in Pipes |-> 1])
    /\ NodeInit(NoOutputs, NoOutputs)
    /\ NoThreads
    /\ ExtInit
    /\ nops = 0
    /\ ncalls = 0

Wire_add_input(n, p) ==
    /\ nops < MaxWire
    /\ add_input(n, p)
    /\ nops' = nops + 1
    /\ UNCHANGED <<pipeVars, writerVars, readerVars, histVars, ncalls, threadVars,
                   npc, nobj, oi, active_outputs, nres, closed0, recVars, confVars>>

Wire_add_output(n, p) ==
    /\ nops < MaxWire
    /\ add_output(n, p)
    /\ nops' = nops + 1
    /\ UNCHANGED <<pipeVars, writerVars, readerVars, histVars, ncalls, threadVars,
                   npc, nobj, oi, active_outputs, nres, closed0, recVars, confVars>>

WireNext ==
    \/ \E n \in Nodes, p \in Pipes : Wire_add_input(n, p)
    \/ \E n \in Nodes, p \in Pipes : Wire_add_output(n, p)

WireSpec == WireInit /\ [][WireNext]_vars

----------------------------------------------------------------------------
(* Properties of the wiring (WireSpec) *)

NoDuplicates(s) == \A i, j \in 1..Len(s) : s[i] = s[j] => i = j

\* The call that ends in the next state passes a pipe that is already in the
\* list it asks to extend.
AlreadyConnected ==
    \/ wres'.method = "add_input" /\ wres'.pipe \in Range(inputs[wres'.node])
    \/ wres'.method = "add_output" /\ wres'.pipe \in Range(outputs[wres'.node])

\* C12: no pipe appears more than once in a node's inputs or in its
\* outputs, and an add_input / add_output call passing a pipe already in that
\* list fails and leaves both lists of every node as they were.
C12_NoDoubleConnection ==
    /\ [](\A n \in Nodes : NoDuplicates(inputs[n]) /\ NoDuplicates(outputs[n]))
    /\ [][nops' = nops + 1 /\ AlreadyConnected =>
             wres'.result # "ok" /\ inputs' = inputs /\ outputs' = outputs]_vars

\* A second add_input of a connected pipe on the plain node has failed, the
\* node having two inputs connected.
C12_Witness ==
    /\ wres = WireCall(Transform, "add_input", 1, "Exception")
    /\ Len(inputs[Transform]) = 2
    /\ outputs[Transform] # <<>>

\* The call that ends in the next state is add_input on the SourceNode or
\* add_output on the TargetNode.
AgainstTopology ==
    \/ wres'.method = "add_input" /\ Kind(wres'.node) = "SourceNode"
    \/ wres'.method = "add_output" /\ Kind(wres'.node) = "TargetNode"

\* C13: the inputs of a SourceNode and the outputs of a TargetNode are
\* always empty, and every add_input on a SourceNode and every add_output on
\* a TargetNode fails without changing either list of any node.
C13_TopologyRestrictions ==
    /\ [](\A n \in Nodes :
             /\ Kind(n) = "SourceNode" => inputs[n] = <<>>
             /\ Kind(n) = "TargetNode" => outputs[n] = <<>>)
    /\ [][nops' = nops + 1 /\ AgainstTopology =>
             wres'.result # "ok" /\ inputs' = inputs /\ outputs' = outputs]_vars

\* add_input on the SourceNode has failed after add_output on it worked, and
\* the TargetNode has an input.
C13_Witness ==
    /\ wres.node = Source /\ wres.method = "add_input" /\ wres.result = "Exception"
    /\ outputs[Source] # <<>>
    /\ inputs[Target] # <<>>

----------------------------------------------------------------------------
(* RecordSpec: one pipe with or without a field list; the producer thread  *)
(* calls put(row), put_record(record) and flush(), the consumer thread     *)
(* iterates rows() or records() and may call stop().  The queue has the    *)
(* default queue_size of Pipe.__init__, 1.                                 *)

\* Number of put / put_record / flush calls the producer makes.
MaxRecOps == 3

\* The value record.get(field) returns for a missing key.
None == 0

\* The field lists tried: none, one field, two fields.
FieldLists == {NoFields, <<"a">>, <<"a", "b">>}

\* The records (dicts) passed to put_record.
RecordsTried == {[a |-> 1], [b |-> 2], [a |-> 2, b |-> 1]}

\* The rows passed to put directly.
RowsTried == {<<1>>, <<2, 1>>}

Min(a, b) == IF a <= b THEN a ELSE b

\* put_record, line 31-33: [record.get(field) for field in self.fields.names()]
ToRow(names, record) ==
    [i \in 1..Len(names) |->
        IF names[i] \in DOMAIN record THEN record[names[i]] ELSE None]

\* records, line 142: dict(zip(fields, row)); zip stops at the shorter of the
\* two, and of two equal keys the last one stays.
ToRecord(names, row) ==
    LET n == Min(Len(names), Len(row))
    IN  [k \in {names[i] : i \in 1..n} |->
            row[CHOOSE i \in 1..n : names[i] = k /\ \A j \in (i+1)..n : names[j] # k]]

\* Mutant of SimpleDataPipe_put_record: a pipe without a field list is taken
\* to have no fields, and the empty row is put.
SimpleDataPipe_put_record_lenient(p, record) ==
    /\ Pipe_put_call(p, IF fields[p] = NoFields THEN <<>> ELSE ToRow(fields[p], record))
    /\ put_record_res' = "ok"

\* SimpleDataPipe.put_record, line 29-34, inherited by Pipe: with fields None
\* self.fields.names() raises AttributeError before anything is put.
SimpleDataPipe_put_record(p, record) ==
    IF fields[p] = NoFields
    THEN /\ wpc[p] = "idle"
         /\ put_record_res' = "AttributeError"
         /\ UNCHANGED <<writerVars, histVars>>
    ELSE /\ Pipe_put_call(p, ToRow(fields[p], record))
         /\ put_record_res' = "ok"

\* Pipe.records, line 137-141: calling records() and advancing the generator
\* to its first statement; without fields it raises, with fields it starts
\* the loop over self.rows().
Pipe_records_call(p) ==
    IF fields[p] = NoFields
    THEN /\ rpc[p] = "idle"
         /\ records_res' = "Exception"
         /\ UNCHANGED readerVars
    ELSE /\ Pipe_rows_call(p)
         /\ records_res' = "ok"

\* records, line 142: rows() has yielded a row, records() yields its dict.
Pipe_records_yield(p) ==
    /\ rpc[p] = "yield"
    /\ records_res = "ok"
    /\ Len(yrecords) < Len(yielded[p])
    /\ yrecords' = Append(yrecords, ToRecord(fields[p], yielded[p][Len(yielded[p])]))

RecordInit ==
    /\ \E c \in 1..MaxCap :
          PipeInit([p \in Pipes |-> IF p = ThePipe THEN c ELSE 1], [p \in Pipes |-> 1])
    /\ NodeInit(NoOutputs, NoOutputs)
    /\ NoThreads
    /\ wres = [node |-> 0, method |-> "none", pipe |-> 0, result |-> "none"]
    /\ \E names \in FieldLists :
          fields = [p \in Pipes |-> IF p = ThePipe THEN names ELSE NoFields]
    /\ put_record_res = "none"
    /\ records_res = "none"
    /\ yrecords = <<>>
    /\ attrs = <<>>
    /\ confcall = NoCall
    /\ nops = 0
    /\ ncalls = 0

Record_put(row) ==
    /\ nops < MaxRecOps
    /\ Pipe_put_call(ThePipe, row)
    /\ put_record_res' = "none"
    /\ nops' = nops + 1
    /\ UNCHANGED <<pipeVars, readerVars, nodeVars, ncalls, threadVars, wres,
                   fields, records_res, yrecords, confVars>>

Record_put_record(record) ==
    /\ nops < MaxRecOps
    /\ SimpleDataPipe_put_record(ThePipe, record)
    /\ nops' = nops + 1
    /\ UNCHANGED <<pipeVars, readerVars, nodeVars, ncalls, threadVars, wres,
                   fields, records_res, yrecords, confVars>>

Record_flush ==
    /\ nops < MaxRecOps
    /\ Pipe_flush_call(ThePipe)
    /\ put_record_res' = "none"
    /\ nops' = nops + 1
    /\ UNCHANGED <<pipeVars, readerVars, nodeVars, ncalls, threadVars, wres,
                   fields, records_res, yrecords, confVars>>

Record_rows ==
    /\ Pipe_rows_call(ThePipe)
    /\ records_res' = "none"
    /\ UNCHANGED <<pipeVars, writerVars, histVars, nops, nodeVars, ncalls, threadVars,
                   wres, fields, put_record_res, yrecords, confVars>>

Record_records ==
    /\ Pipe_records_call(ThePipe)
    /\ UNCHANGED <<pipeVars, writerVars, histVars, nops, nodeVars, ncalls, threadVars,
                   wres, fields, put_record_res, yrecords, confVars>>

Record_yield ==
    /\ Pipe_records_yield(ThePipe)
    /\ UNCHANGED <<pipeVars, writerVars, readerVars, histVars, nops, nodeVars, ncalls,
                   threadVars, wres, fields, put_record_res, records_res, confVars>>

\* The consumer asks for the next row, or the next record once records()
\* has yielded the dict of the current row.
Record_next ==
    /\ records_res = "ok" => Len(yrecords) = Len(yielded[ThePipe])
    /\ ConsumerNext(ThePipe)

RecordNext ==
    \/ \E row \in RowsTried : Record_put(row)
    \/ \E record \in RecordsTried : Record_put_record(record)
    \/ Record_flush
    \/ Record_rows
    \/ Record_records
    \/ Record_yield
    \/ Record_next
    \/ ConsumerStop(ThePipe)
    \/ WriterStep(ThePipe)
    \/ ReaderStep(ThePipe)
    \/ StopStep(ThePipe)

RecordSpec == RecordInit /\ [][RecordNext]_vars

----------------------------------------------------------------------------
(* Properties of the record conversion (RecordSpec) *)

\* The step is a put_record() or a records() call that failed.
FailedConversion ==
    \/ nops' = nops + 1 /\ put_record_res' = "AttributeError"
    \/ records_res # "Exception" /\ records_res' = "Exception"

\* C14: on a pipe without a field list put_record() and records() never
\* succeed and no record is ever yielded, and a failed put_record() or
\* records() call leaves the buffer, the queue, the flags and what was put
\* and yielded so far as they were.
C14_NoFieldsNoConversion ==
    /\ [](fields[ThePipe] = NoFields =>
             put_record_res # "ok" /\ records_res # "ok" /\ yrecords = <<>>)
    /\ [][FailedConversion =>
             UNCHANGED <<pipeVars, writerVars, readerVars, sent, yielded, yrecords>>]_vars

\* Both conversions have failed on a pipe that holds a batch in its queue and
\* a row in its buffer and is closed for write.
C14_Witness ==
    /\ fields[ThePipe] = NoFields
    /\ put_record_res = "AttributeError"
    /\ records_res = "Exception"
    /\ queue[ThePipe] # <<>>
    /\ Deref(ThePipe, buffer[ThePipe]) # <<>>
    /\ stop_sending[ThePipe]

----------------------------------------------------------------------------
(* ConfigSpec: Node.configure applied to a node whose __node_info__        *)
(* declares the attributes "a" and "b", "b" being protected; the config    *)
(* mappings tried also hold the undeclared key "x".                        *)

\* Number of configure() calls made.
MaxConfigure == 2

\* __node_info__["attributes"]: the declared attribute names.
Declared == {"a", "b"}
\* The declared attributes whose info has "protected" set.
Protected == {"b"}
\* The keys a config mapping may hold.
ConfigKeys == Declared \cup {"x"}
ConfigValues == {1, 2}

\* config.items() of the mappings tried: (key, value) pairs in the dict's
\* iteration order, no key twice.
Configs ==
    {c \in UNION {[1..k -> ConfigKeys \X ConfigValues] : k \in 0..Cardinality(ConfigKeys)} :
        \A i, j \in 1..Len(c) : c[i][1] = c[j][1] => i = j}

\* Mutant of ConfigureItem: the attribute is set without looking it up in
\* the node description.
ConfigureItem_unchecked(a, item, protected) ==
    IF protected /\ item[1] \in Protected
    THEN [attrs |-> a, result |-> "Exception"]
    ELSE [attrs |-> [a EXCEPT ![item[1]] = item[2]], result |-> "ok"]

\* configure, line 221-233: one round of the for loop over config.items().
ConfigureItem(a, item, protected) ==
    IF item[1] \notin Declared
    THEN [attrs |-> a, result |-> "ok"]
    ELSE IF protected /\ item[1] \in Protected
         THEN [attrs |-> a, result |-> "Exception"]
         ELSE [attrs |-> [a EXCEPT ![item[1]] = item[2]], result |-> "ok"]

RECURSIVE ConfigureItems(_, _, _)
\* configure, line 221: the for loop; a raise ends it, keeping what was set.
ConfigureItems(a, items, protected) ==
    IF items = <<>>
    THEN [attrs |-> a, result |-> "ok"]
    ELSE LET r == ConfigureItem(a, Head(items), protected)
         IN  IF r.result = "ok"
             THEN ConfigureItems(r.attrs, Tail(items), protected)
             ELSE r

ConfigInit ==
    /\ PipeInit([p \in Pipes |-> 1], [p \in Pipes |-> 1])
    /\ NodeInit(NoOutputs, NoOutputs)
    /\ NoThreads
    /\ wres = [node |-> 0, method |-> "none", pipe |-> 0, result |-> "none"]
    /\ fields = [p \in Pipes |-> NoFields]
    /\ put_record_res = "none"
    /\ records_res = "none"
    /\ yrecords = <<>>
    /\ attrs = [k \in ConfigKeys |-> None]
    /\ confcall = NoCall
    /\ nops = 0
    /\ ncalls = 0

\* Node.configure(config, protected), line 204-233
Node_configure(config, protected) ==
    /\ nops < MaxConfigure
    /\ LET r == ConfigureItems(attrs, config, protected)
       IN  /\ attrs' = r.attrs
           /\ confcall' = [config |-> config, protected |-> protected,
                           result |-> r.result, before |-> attrs,
                           repeat |-> /\ confcall.result # "none"
                                      /\ confcall.config = config
                                      /\ confcall.protected = protected]
    /\ nops' = nops + 1
    /\ UNCHANGED <<pipeVars, writerVars, readerVars, histVars, nodeVars, ncalls,
                   threadVars, wres, recVars>>

ConfigNext == \E config \in Configs, protected \in BOOLEAN : Node_configure(config, protected)

ConfigSpec == ConfigInit /\ [][ConfigNext]_vars

----------------------------------------------------------------------------
(* Properties of Node.configure (ConfigSpec) *)

\* The items of the last call's config whose key is a declared attribute.
DeclaredItems == SelectSeq(confcall.config, LAMBDA item : item[1] \in Declared)

\* C15: a configure() call that repeats the call before it (same mapping,
\* same mode) leaves every attribute as the first call left it; an undeclared
\* key never changes an attribute and never makes the call fail: the call
\* ends as it does without the undeclared keys, and fails only in protected
\* mode on a protected attribute.
C15_ConfigureIdempotent ==
    /\ confcall.repeat => attrs = confcall.before
    /\ \A k \in ConfigKeys \ Declared : attrs[k] = None
    /\ confcall.result # "none" =>
          /\ attrs = ConfigureItems(confcall.before, DeclaredItems, confcall.protected).attrs
          /\ confcall.result =
                ConfigureItems(confcall.before, DeclaredItems, confcall.protected).result
          /\ confcall.result # "ok" =>
                /\ confcall.protected
                /\ \E i \in 1..Len(confcall.config) : confcall.config[i][1] \in Protected

\* A mapping with the undeclared key first, then a declared and a protected
\* attribute, was applied twice in protected mode: "a" is set, the call failed.
C15_Witness ==
    /\ confcall.repeat
    /\ confcall.protected
    /\ Len(confcall.config) = 3
    /\ confcall.config[1][1] = "x" /\ confcall.config[2][1] = "a"
    /\ attrs["a"] = confcall.config[2][2]
    /\ confcall.result = "Exception"

----------------------------------------------------------------------------
(* Properties of repeated flush, of stop() and of the flags (Spec, FairSpec) *)

\* C16: whatever sequence of put and flush calls the producer makes, no
\* row is yielded twice, and a list that is in the queue is neither changed
\* nor put into the queue again.
C16_AtMostOnce ==
    /\ [](NoDuplicates(yielded[ThePipe]))
    /\ [][\A r \in Range(queue[ThePipe]) :
             /\ lists'[ThePipe][r] = lists[ThePipe][r]
             /\ queue'[ThePipe] # Append(queue[ThePipe], r)]_vars

\* C17: after stop() has set stop_sending the producer enqueues at most
\* one more batch, and no batch is enqueued by a put or flush call that began
\* when the flag was already set.
C17_AtMostOneLateBatch ==
    /\ [](\A p \in Pipes : late_batches[p] <= 1)
    /\ [][\A p \in Pipes :
             Len(queue'[p]) > Len(queue[p]) => ~began_closed[p]]_vars

\* One batch went into the queue after the flag was set; a later put was
\* dropped and a flush that began after the flag has returned.
C17_Witness ==
    /\ late_batches[ThePipe] = 1
    /\ dropped[ThePipe] # {}
    /\ began_closed[ThePipe] /\ wcall[ThePipe] = "flush" /\ wpc[ThePipe] = "idle"

\* C18: both flags are false when the pipe is created and neither ever goes
\* back to false; stop_sending changes only in stop() (line 148) and finished
\* only in flush() (line 118).
C18_FlagsMonotonic ==
    /\ \A p \in Pipes : ~finished[p] /\ ~stop_sending[p]
    /\ [][\A p \in Pipes :
             /\ finished[p] => finished'[p]
             /\ stop_sending[p] => stop_sending'[p]
             /\ finished'[p] # finished[p] => wcall[p] = "flush" /\ wpc[p] = "F118"
             /\ stop_sending'[p] # stop_sending[p] => rpc[p] = "T148"]_vars

\* Both flags are set, stop() has returned and the producer has gone on
\* calling put and flush to its last call.
C18_Witness ==
    /\ finished[ThePipe] /\ stop_sending[ThePipe]
    /\ rpc[ThePipe] = "stopped"
    /\ dropped[ThePipe] # {}
    /\ nops = MaxOps /\ wpc[ThePipe] = "idle"

\* C19: stop() never waits: inside stop() the consumer thread can always
\* take its next step, stop() returns, and on a queue of depth D >= 1 it has
\* by then taken at most D + 1 batches out of the queue.
C19_StopReturns ==
    /\ [](\A p \in {ThePipe} :
             /\ rpc[p] \in {"T148", "T152"} => ENABLED StopStep(p)
             /\ queue_size[p] >= 1 => drained[p] <= queue_size[p] + 1)
    /\ (rpc[ThePipe] = "T148") ~> (rpc[ThePipe] = "stopped")

\* stop() has returned after taking D + 1 batches out of a queue of depth D.
C19_Witness ==
    /\ queue_size[ThePipe] >= 1
    /\ drained[ThePipe] = queue_size[ThePipe] + 1
    /\ rpc[ThePipe] = "stopped"

----------------------------------------------------------------------------
(* Order of the fan-out (NodeSpec) *)

\* Node n's Node.put call is inside output.put on the output the loop is at,
\* suspended in queue.put on that output's full queue.
SuspendedOnOutput(n) ==
    /\ npc[n] = "N218"
    /\ Suspended(outputs[n][oi[n]])

\* C20: during a Node.put call the row has not been written to any output
\* after the one the loop is at, in particular not while the call is
\* suspended on that output's full queue, and it has been written to every
\* earlier output that is not closed; a suspended call stays where it is,
\* and that queue changes only by its consumer taking a batch out of it, in
\* rows() or in stop().
C20_SequentialFanOut ==
    /\ [](\A n \in {TheNode} :
             npc[n] \in {"N216", "N218"} =>
                \A j \in 1..Len(outputs[n]) :
                    /\ j > oi[n] => ~Written(outputs[n][j], nobj[n])
                    /\ j < oi[n] =>
                          (Written(outputs[n][j], nobj[n]) \/ stop_sending[outputs[n][j]]))
    /\ [][\A n \in {TheNode} :
             IF npc[n] = "N218"
             THEN LET p == outputs[n][oi[n]]
                  IN  Suspended(p) =>
                         /\ npc'[n] = npc[n] /\ oi'[n] = oi[n] /\ wpc'[p] = wpc[p]
                         /\ queue'[p] # queue[p] =>
                               /\ queue'[p] = Tail(queue[p])
                               /\ rpc[p] \in {"R125", "T152"}
             ELSE TRUE]_vars

\* The call is suspended on the full queue of the first of two outputs: the
\* row is in the first output's buffer and in no buffer of the second.
C20_Witness ==
    /\ Len(outputs[TheNode]) = 2
    /\ oi[TheNode] = 1
    /\ SuspendedOnOutput(TheNode)
    /\ Written(outputs[TheNode][1], nobj[TheNode])
    /\ ~Written(outputs[TheNode][2], nobj[TheNode])

====
